---------------------------- MODULE Spec2Model ----------------------------
(***************************************************************************)
(* A model of the two serverless request handlers of the media downloader: *)
(* api/index.js (resolve-media: platform detection and the provider chain  *)
(* TikWM -> Snaptik on top of the timed fetch utility fetchUrl) and        *)
(* api/filesize.js (the size prober: HEAD, then a ranged GET).             *)
(*                                                                         *)
(* One behaviour is the life of one request: Init draws the request, the   *)
(* handler's code runs between its awaits, and the remote servers answer   *)
(* (or stall, or fail) through the environment actions.                    *)
(*                                                                         *)
(* JavaScript values are records tagged by t ("undefined", "null",         *)
(* "string", "number", "object"); strings that the code inspects           *)
(* character by character (URLs, header values) are sequences of           *)
(* one-character strings; an optional field is a sequence of length <= 1.  *)
(* A field value "" stands for every falsy value of a payload field        *)
(* (undefined, null, ''), which the code's || chains do not tell apart.    *)
(***************************************************************************)
EXTENDS Integers, Sequences, FiniteSets, TLC

-----------------------------------------------------------------------------
(* JavaScript values *)

Undefined == [t |-> "undefined"]
Null == [t |-> "null"]
Str(s) == [t |-> "string", s |-> s]
Num(n) == [t |-> "number", n |-> n]

\* !!v
Truthy(v) ==
    CASE v.t = "undefined" -> FALSE
      [] v.t = "null" -> FALSE
      [] v.t = "string" -> v.s # <<>>
      [] v.t = "number" -> v.n # 0
      [] OTHER -> TRUE

\* a || b on payload fields ("" is falsy)
Or(a, b) == IF a # "" THEN a ELSE b

-----------------------------------------------------------------------------
(* Character strings *)

UpperCase == <<"A", "B", "C", "D", "E", "F", "G", "H", "I", "J", "K", "L", "M",
               "N", "O", "P", "Q", "R", "S", "T", "U", "V", "W", "X", "Y", "Z">>
LowerCase == <<"a", "b", "c", "d", "e", "f", "g", "h", "i", "j", "k", "l", "m",
               "n", "o", "p", "q", "r", "s", "t", "u", "v", "w", "x", "y", "z">>

ToLowerChar(c) ==
    IF \E i \in 1..Len(UpperCase) : UpperCase[i] = c
    THEN LowerCase[CHOOSE i \in 1..Len(UpperCase) : UpperCase[i] = c]
    ELSE c

ToLower(s) == [i \in 1..Len(s) |-> ToLowerChar(s[i])]

\* the pattern p occurs somewhere in s (an unanchored literal regex)
Contains(s, p) ==
    \E i \in 1..(Len(s) - Len(p) + 1) : SubSeq(s, i, i + Len(p) - 1) = p

\* /p/i.test(s)
TestI(s, p) == Contains(ToLower(s), p)

IsSpace(c) == c \in {" ", "\t", "\n"}

\* String.prototype.trim
Trim(s) ==
    IF \A i \in 1..Len(s) : IsSpace(s[i]) THEN <<>>
    ELSE LET first == CHOOSE i \in 1..Len(s) :
                          /\ ~IsSpace(s[i])
                          /\ \A j \in 1..(i - 1) : IsSpace(s[j])
             last == CHOOSE i \in 1..Len(s) :
                          /\ ~IsSpace(s[i])
                          /\ \A j \in (i + 1)..Len(s) : IsSpace(s[j])
         IN SubSeq(s, first, last)

\* a UTF-16 surrogate without its pair, written as the one element "\\uD800"
LoneSurrogate == "\\uD800"

-----------------------------------------------------------------------------
(* api/index.js: detectPlatform *)

detectPlatformYoutubeFirst(url) ==
    IF \/ TestI(url, <<"y", "o", "u", "t", "u", "b", "e">>)
       \/ TestI(url, <<"y", "o", "u", "t", "u", ".", "b", "e">>) THEN "youtube"
    ELSE IF TestI(url, <<"t", "i", "k", "t", "o", "k", ".", "c", "o", "m">>) THEN "tiktok"
    ELSE IF TestI(url, <<"i", "n", "s", "t", "a", "g", "r", "a", "m", ".", "c", "o", "m">>)
         THEN "instagram"
    ELSE IF \/ TestI(url, <<"t", "w", "i", "t", "t", "e", "r", ".", "c", "o", "m">>)
            \/ TestI(url, <<"x", ".", "c", "o", "m">>) THEN "twitter"
    ELSE IF \/ TestI(url, <<"f", "a", "c", "e", "b", "o", "o", "k", ".", "c", "o", "m">>)
            \/ TestI(url, <<"f", "b", ".", "w", "a", "t", "c", "h">>) THEN "facebook"
    ELSE "unknown"

detectPlatform(url) ==
    IF TestI(url, <<"t", "i", "k", "t", "o", "k", ".", "c", "o", "m">>) THEN "tiktok"
    ELSE IF \/ TestI(url, <<"y", "o", "u", "t", "u", "b", "e">>)
            \/ TestI(url, <<"y", "o", "u", "t", "u", ".", "b", "e">>) THEN "youtube"
    ELSE IF TestI(url, <<"i", "n", "s", "t", "a", "g", "r", "a", "m", ".", "c", "o", "m">>)
         THEN "instagram"
    ELSE IF \/ TestI(url, <<"t", "w", "i", "t", "t", "e", "r", ".", "c", "o", "m">>)
            \/ TestI(url, <<"x", ".", "c", "o", "m">>) THEN "twitter"
    ELSE IF \/ TestI(url, <<"f", "a", "c", "e", "b", "o", "o", "k", ".", "c", "o", "m">>)
            \/ TestI(url, <<"f", "b", ".", "w", "a", "t", "c", "h">>) THEN "facebook"
    ELSE "unknown"

-----------------------------------------------------------------------------
(* Texts: a request body given as a string, or the body of a remote's      *)
(* response.  Only two things about a text matter to the code: whether it  *)
(* is empty, and what JSON.parse makes of it (json = <<>>: a SyntaxError). *)

Text(empty, json) == [t |-> "text", empty |-> empty, json |-> json]
EmptyText == Text(TRUE, <<>>)
Garbage == Text(FALSE, <<>>)
JsonOf(v) == Text(FALSE, <<v>>)

\* !!v for a value that may be a text
IsTruthy(v) == IF v.t = "text" THEN ~v.empty ELSE Truthy(v)

\* typeof v
TypeOf(v) ==
    CASE v.t = "text" -> "string"
      [] v.t = "null" -> "object"
      [] OTHER -> v.t

\* JSON.parse(text): the value, or a thrown SyntaxError
JSONparse(text) ==
    IF text.json = <<>> THEN [ok |-> FALSE, v |-> Undefined]
    ELSE [ok |-> TRUE, v |-> text.json[1]]

-----------------------------------------------------------------------------
(* The requests *)

UrlTikTokPadded == <<" ", "t", "i", "k", "t", "o", "k", ".", "c", "o", "m", "/", "v", " ">>
UrlTikTokUpper == <<"T", "i", "k", "T", "o", "k", ".", "c", "o", "m", "/", "@", "a">>
UrlTikTokSurrogate == <<"t", "i", "k", "t", "o", "k", ".", "c", "o", "m", "/", LoneSurrogate>>
UrlTwitter == <<"x", ".", "c", "o", "m", "/", "a">>
UrlOther == <<"e", "x", "a", "m", "p", "l", "e", ".", "o", "r", "g">>
UrlBlank == <<" ", " ">>
UrlYoutubeShort == <<"y", "o", "u", "t", "u", ".", "b", "e", "/", "a">>
UrlInstagram == <<"I", "n", "s", "t", "a", "g", "r", "a", "m", ".", "c", "o", "m", "/", "p">>
UrlFacebookWatch == <<"f", "b", ".", "w", "a", "t", "c", "h", "/", "a">>
\* addresses that match the patterns of two platforms
UrlTikTokYoutube == <<"y", "o", "u", "t", "u", "b", "e", ".", "t", "i", "k", "t", "o", "k", ".", "c", "o", "m">>
UrlTwitterYoutube == <<"x", ".", "c", "o", "m", "/", "y", "o", "u", "t", "u", "b", "e">>

RequestUrls ==
    {UrlTikTokPadded, UrlTikTokUpper, UrlTikTokSurrogate, UrlTwitter, UrlOther, UrlBlank,
     UrlYoutubeShort, UrlInstagram, UrlFacebookWatch, UrlTikTokYoutube, UrlTwitterYoutube}

\* a JSON object as the handler reads it: only its url field is looked at
\* (downloadMode and videoQuality are passed on and never used)
BodyObject(u) == [t |-> "object", url |-> u]

\* values of the url field
UrlFields == {Undefined, Str(<<>>), Num(5)} \cup {Str(u) : u \in RequestUrls}

\* req.body of a POST
Bodies ==
    {Undefined, Null, EmptyText, Garbage, JsonOf(Num(5)), JsonOf(Null)}
    \cup {BodyObject(u) : u \in UrlFields}
    \cup {JsonOf(BodyObject(Str(u))) : u \in {UrlTikTokPadded, UrlOther}}
    \cup {JsonOf(BodyObject(Undefined))}

MediaRequests ==
    {[endpoint |-> "media", method |-> m, body |-> Undefined, debug |-> d, url |-> <<>>] :
        m \in {"OPTIONS", "GET", "PUT"}, d \in BOOLEAN}
    \cup {[endpoint |-> "media", method |-> "POST", body |-> b, debug |-> d, url |-> <<>>] :
        b \in Bodies, d \in BOOLEAN}

\* req.query.url of the size prober: absent (<<>>) or some address
SizeRequests ==
    {[endpoint |-> "size", method |-> m, body |-> Undefined, debug |-> FALSE, url |-> u] :
        m \in {"OPTIONS", "GET", "POST"}, u \in {<<>>, <<UrlOther>>}}

Requests == MediaRequests \cup SizeRequests

-----------------------------------------------------------------------------
(* State *)

VARIABLES
    req,         \* the incoming request
    pc,          \* where the handler stands
    response,    \* <<>> until the handler answers, then <<[status, body]>>
    fault,       \* an exception left the handler
    exc,         \* the message of the exception being handled
    url,         \* index.js: const url
    platform,    \* index.js: const platform
    debugLog,    \* index.js: const debugLog
    idx,         \* index.js: position of the for-of loop in providers
    finalResult, \* index.js: let finalResult
    lastError,   \* index.js: let lastError
    ret,         \* what the provider just invoked returned or threw
    rets,        \* history: the outcome of every provider invocation, in order
    data,        \* providerTikwm: let data
    inflight,    \* the outbound calls that are pending
    calls,       \* history: the outbound calls issued, in order
    fetched,     \* history: how every fetchUrl call ended, in order
    headResponse,  \* filesize.js: const response, <<>> before it arrives
    rangeResponse, \* filesize.js: const rangeResponse, <<>> before it arrives
    size,        \* filesize.js: let size
    type         \* filesize.js: const type

vars == <<req, pc, response, fault, exc, url, platform, debugLog, idx, finalResult,
          lastError, ret, rets, data, inflight, calls, fetched, headResponse,
          rangeResponse, size, type>>

mediaVars == <<url, platform, debugLog, idx, finalResult, lastError, ret, rets, data,
               fetched>>
probeVars == <<headResponse, rangeResponse, size, type>>

NoRet == [k |-> "none"]
Returned(v) == [k |-> "return", v |-> v]
Threw(msg) == [k |-> "throw", msg |-> msg]

Init ==
    /\ req \in Requests
    /\ pc = "recv"
    /\ response = <<>>
    /\ fault = FALSE
    /\ exc = ""
    /\ url = <<>>
    /\ platform = ""
    /\ debugLog = <<>>
    /\ idx = 1
    /\ finalResult = Null
    /\ lastError = ""
    /\ ret = NoRet
    /\ rets = <<>>
    /\ data = Null
    /\ inflight = {}
    /\ calls = <<>>
    /\ fetched = <<>>
    /\ headResponse = <<>>
    /\ rangeResponse = <<>>
    /\ size = Null
    /\ type = Null

\* res.status(s).json(b) / res.status(s).end()
Send(s, b) ==
    /\ response' = <<[status |-> s, body |-> b]>>
    /\ pc' = "done"

NoBody == [t |-> "empty"]
ErrorEnvelope(text) == [status |-> "error", text |-> text]

-----------------------------------------------------------------------------
(* api/index.js: the handler, up to the provider loop *)

IsMedia == req.endpoint = "media" /\ pc = "recv"

Preflight ==
    /\ IsMedia
    /\ req.method = "OPTIONS"
    /\ Send(200, NoBody)
    /\ UNCHANGED <<req, fault, exc, mediaVars, inflight, calls, probeVars>>

\* server_time is the clock's reading and is left out
HealthCheck ==
    /\ IsMedia
    /\ req.method = "GET"
    /\ Send(200, [status |-> "ok", message |-> "MediaDownloader API V3 is Online"])
    /\ UNCHANGED <<req, fault, exc, mediaVars, inflight, calls, probeVars>>

MethodNotAllowedStatus == 405

MethodNotAllowed ==
    /\ IsMedia
    /\ req.method \notin {"OPTIONS", "GET", "POST"}
    /\ Send(MethodNotAllowedStatus, ErrorEnvelope("Method not allowed"))
    /\ UNCHANGED <<req, fault, exc, mediaVars, inflight, calls, probeVars>>

\* let input = req.body; if it is a string, JSON.parse it, keeping the string
\* when the parse throws
ParseInput(body) ==
    IF TypeOf(body) = "string" /\ JSONparse(body).ok THEN JSONparse(body).v ELSE body

\* !input || typeof input !== 'object' || !input.url
InputRejected(input) ==
    IF ~IsTruthy(input) THEN TRUE
    ELSE IF TypeOf(input) # "object" THEN TRUE
    ELSE ~Truthy(input.url)

PostInvalidBareError ==
    /\ IsMedia
    /\ req.method = "POST"
    /\ InputRejected(ParseInput(req.body))
    /\ Send(200, [error |-> "URL diperlukan"])
    /\ UNCHANGED <<req, fault, exc, mediaVars, inflight, calls, probeVars>>

PostInvalid ==
    /\ IsMedia
    /\ req.method = "POST"
    /\ InputRejected(ParseInput(req.body))
    /\ Send(200, ErrorEnvelope("URL diperlukan"))
    /\ UNCHANGED <<req, fault, exc, mediaVars, inflight, calls, probeVars>>

\* input.url.trim() on a url that is no string: a TypeError, caught by the
\* handler's outer try
PostTrimThrows ==
    /\ IsMedia
    /\ req.method = "POST"
    /\ LET input == ParseInput(req.body) IN
        /\ ~InputRejected(input)
        /\ input.url.t # "string"
        /\ exc' = "input.url.trim is not a function"
        /\ pc' = "catch"
    /\ UNCHANGED <<req, response, fault, mediaVars, inflight, calls, probeVars>>

PostBegin ==
    /\ IsMedia
    /\ req.method = "POST"
    /\ LET input == ParseInput(req.body) IN
        /\ ~InputRejected(input)
        /\ input.url.t = "string"
        /\ url' = Trim(input.url.s)
        /\ platform' = detectPlatform(Trim(input.url.s))
    /\ debugLog' = <<>>
    /\ finalResult' = Null
    /\ lastError' = ""
    /\ idx' = 1
    /\ pc' = "loop"
    /\ UNCHANGED <<req, response, fault, exc, ret, rets, data, fetched, inflight, calls,
                   probeVars>>

GlobalCatchStatus == 200

GlobalCatchRethrows ==
    /\ req.endpoint = "media"
    /\ pc = "catch"
    /\ fault' = TRUE
    /\ pc' = "done"
    /\ UNCHANGED <<req, response, exc, mediaVars, inflight, calls, probeVars>>

\* catch (globalError): the stack is attached in development builds only and
\* is left out
GlobalCatch ==
    /\ req.endpoint = "media"
    /\ pc = "catch"
    /\ Send(GlobalCatchStatus,
            ErrorEnvelope("Server Error: " \o (IF exc # "" THEN exc ELSE "Unknown error")))
    /\ UNCHANGED <<req, fault, exc, mediaVars, inflight, calls, probeVars>>

-----------------------------------------------------------------------------
(* Outbound calls.  A call is pending from the moment fetch() is called    *)
(* until the awaiting code resumes.  phase "fetch": fetch() has not        *)
(* settled (no response headers yet); phase "body": response.text() has    *)
(* not settled.  timer: the state of the call's own setTimeout.  A call    *)
(* that has ended leaves the set with its timer: a timer left armed by a   *)
(* failed call aborts a controller nobody listens to any more.             *)

FetchUrlSites == {"tikwm_post", "tikwm_get", "snaptik_post"}

NewCall(site) == [site |-> site, phase |-> "fetch", timer |-> "armed"]

\* const timeoutId = setTimeout(() => controller.abort(), ...); fetch(...)
StartCall(site) ==
    /\ inflight' = inflight \cup {NewCall(site)}
    /\ calls' = Append(calls, site)

-----------------------------------------------------------------------------
(* What the two remote APIs may answer.  The payloads are the classes the  *)
(* providers tell apart; a payload of this model carries no id, title,     *)
(* author, cover or size field, so the results carry the code's defaults.  *)

MediaUrl(f) == "https://cdn.example/" \o f

Videos ==
    [hdplay : {"", MediaUrl("hdplay")}, play : {"", MediaUrl("play")},
     music : {"", MediaUrl("music")}, wmplay : {"", MediaUrl("wmplay")}]

TikwmObject(code, msg, d) == [t |-> "object", code |-> code, msg |-> msg, data |-> d]

TikwmPayloads ==
    {Null, Num(5)}
    \cup {TikwmObject(c, m, <<>>) : c \in {<<>>, <<-1>>}, m \in {"", "Url parsing is failed!"}}
    \cup {TikwmObject(<<0>>, "success", <<>>)}
    \cup {TikwmObject(<<0>>, "success", <<v>>) : v \in Videos}

SnaptikObject(st, video, nwm, desc) ==
    [t |-> "object", status |-> st, video |-> video, nwm_video_url |-> nwm, desc |-> desc]

SnaptikPayloads ==
    {Null}
    \cup {SnaptikObject(st, "", "", "") : st \in {"", "fail"}}
    \cup {SnaptikObject("success", v, n, d) :
            v \in {"", MediaUrl("video")}, n \in {"", MediaUrl("nwm")},
            d \in {"", "a caption"}}

\* the bodies a remote may send to a call made at `site`
BodyTexts(site) ==
    {EmptyText, Garbage}
    \cup {JsonOf(v) : v \in (IF site = "snaptik_post" THEN SnaptikPayloads ELSE TikwmPayloads)}

-----------------------------------------------------------------------------
(* api/index.js: the provider loop *)

providers == <<"providerTikwm", "providerSnaptik">>

LogEntry(tpl, name, text) == [tpl |-> tpl, name |-> name, text |-> text]

\* result && result.status && result.status !== 'error'
IsSuccessInverted(result) ==
    /\ result # Null
    /\ "status" \in DOMAIN result
    /\ result.status # ""
    /\ result.status = "error"

IsSuccess(result) ==
    /\ result # Null
    /\ "status" \in DOMAIN result
    /\ result.status # ""
    /\ result.status # "error"

HasTextWrongField(result) ==
    /\ result # Null
    /\ "message" \in DOMAIN result
    /\ result.message # ""

\* result && result.text
HasText(result) ==
    /\ result # Null
    /\ "text" \in DOMAIN result
    /\ result.text # ""

LoopDone ==
    /\ req.endpoint = "media"
    /\ pc = "loop"
    /\ IF idx > Len(providers) THEN TRUE ELSE finalResult # Null
    /\ pc' = "respond"
    /\ UNCHANGED <<req, response, fault, exc, mediaVars, inflight, calls, probeVars>>

CanInvokeAnyOrder(name) ==
    /\ req.endpoint = "media"
    /\ pc = "loop"
    /\ idx <= Len(providers)
    /\ finalResult = Null
    /\ name \in {providers[i] : i \in 1..Len(providers)}

\* the loop body up to the provider's first await
CanInvoke(name) ==
    /\ req.endpoint = "media"
    /\ pc = "loop"
    /\ idx <= Len(providers)
    /\ finalResult = Null
    /\ providers[idx] = name

Trying(name) == LogEntry("Trying provider: ${name}", name, "")

\* platform !== 'tiktok', the first line of either provider
DeclinesUnknownOnly(p) == p = "unknown"

Declines(p) == p # "tiktok"

\* if (platform !== 'tiktok') return null, in either provider
ProviderDeclines ==
    /\ \E name \in {"providerTikwm", "providerSnaptik"} :
        /\ CanInvoke(name)
        /\ debugLog' = Append(debugLog, Trying(name))
    /\ Declines(platform)
    /\ ret' = Returned(Null)
    /\ pc' = "result"
    /\ UNCHANGED <<req, response, fault, exc, url, platform, idx, finalResult, lastError,
                   rets, data, fetched, inflight, calls, probeVars>>

TikwmStart ==
    /\ CanInvoke("providerTikwm")
    /\ ~Declines(platform)
    /\ debugLog' = debugLog \o <<Trying("providerTikwm"), LogEntry("TikWM trying POST", "", "")>>
    /\ StartCall("tikwm_post")
    /\ data' = Null
    /\ pc' = "tikwm_post"
    /\ UNCHANGED <<req, response, fault, exc, url, platform, idx, finalResult, lastError,
                   ret, rets, fetched, probeVars>>

SnaptikStart ==
    /\ CanInvoke("providerSnaptik")
    /\ ~Declines(platform)
    /\ debugLog' = debugLog \o <<Trying("providerSnaptik"),
                                 LogEntry("Snaptik(tik.fail) trying", "", "")>>
    /\ StartCall("snaptik_post")
    /\ pc' = "snaptik_post"
    /\ UNCHANGED <<req, response, fault, exc, url, platform, idx, finalResult, lastError,
                   ret, rets, data, fetched, probeVars>>

\* lastError after a provider's outcome (lines 69-75)
NextLastErrorCleared(outcome) ==
    IF outcome.k = "throw" THEN outcome.msg
    ELSE IF HasText(outcome.v) THEN outcome.v.text
    ELSE ""

NextLastError(outcome) ==
    IF outcome.k = "throw" THEN outcome.msg
    ELSE IF HasText(outcome.v) THEN outcome.v.text
    ELSE lastError

HandleResultRethrows ==
    /\ req.endpoint = "media"
    /\ pc = "result"
    /\ rets' = Append(rets, ret)
    /\ LET name == providers[idx] IN
        IF ret.k = "throw"
        THEN /\ exc' = ret.msg
             /\ pc' = "catch"
             /\ UNCHANGED <<finalResult, lastError, debugLog, idx>>
        ELSE IF IsSuccess(ret.v)
        THEN /\ finalResult' = ret.v
             /\ debugLog' = Append(debugLog, LogEntry("Success with ${name}", name, ""))
             /\ pc' = "respond"
             /\ UNCHANGED <<lastError, idx, exc>>
        ELSE /\ lastError' = NextLastError(ret)
             /\ debugLog' = IF HasText(ret.v)
                            THEN Append(debugLog,
                                        LogEntry("Failed ${name}: ${text}", name, ret.v.text))
                            ELSE debugLog
             /\ idx' = idx + 1
             /\ pc' = "loop"
             /\ UNCHANGED <<finalResult, exc>>
    /\ UNCHANGED <<req, response, fault, url, platform, ret, data, fetched, inflight,
                   calls, probeVars>>

\* the rest of the loop body, once the provider has returned or thrown
HandleResult ==
    /\ req.endpoint = "media"
    /\ pc = "result"
    /\ rets' = Append(rets, ret)
    /\ LET name == providers[idx] IN
        IF ret.k = "throw"
        THEN /\ lastError' = NextLastError(ret)
             /\ debugLog' = Append(debugLog,
                                LogEntry("Exception ${name}: ${message}", name, ret.msg))
             /\ idx' = idx + 1
             /\ pc' = "loop"
             /\ UNCHANGED finalResult
        ELSE IF IsSuccess(ret.v)
        THEN /\ finalResult' = ret.v
             /\ debugLog' = Append(debugLog, LogEntry("Success with ${name}", name, ""))
             /\ pc' = "respond"
             /\ UNCHANGED <<lastError, idx>>
        ELSE IF HasText(ret.v)
        THEN /\ lastError' = NextLastError(ret)
             /\ debugLog' = Append(debugLog,
                                LogEntry("Failed ${name}: ${text}", name, ret.v.text))
             /\ idx' = idx + 1
             /\ pc' = "loop"
             /\ UNCHANGED finalResult
        ELSE /\ lastError' = NextLastError(ret)
             /\ idx' = idx + 1
             /\ pc' = "loop"
             /\ UNCHANGED <<finalResult, debugLog>>
    /\ UNCHANGED <<req, response, fault, exc, url, platform, ret, data, fetched, inflight,
                   calls, probeVars>>

\* finalResult.debug = debugLog
WithDebug(obj, log) ==
    [f \in (DOMAIN obj) \cup {"debug"} |-> IF f = "debug" THEN log ELSE obj[f]]

DefaultError == "Server sibuk atau timeout"

\* `Gagal memproses link. ${lastError || 'Server sibuk atau timeout'}.`
FailureText(err) ==
    "Gagal memproses link. " \o (IF err # "" THEN err ELSE DefaultError) \o "."

\* req.query && req.query.debug
Debug == req.debug

Respond ==
    /\ req.endpoint = "media"
    /\ pc = "respond"
    /\ LET payload == IF finalResult # Null THEN finalResult
                      ELSE ErrorEnvelope(FailureText(lastError))
       IN Send(200, IF Debug THEN WithDebug(payload, debugLog) ELSE payload)
    /\ UNCHANGED <<req, fault, exc, mediaVars, inflight, calls, probeVars>>

-----------------------------------------------------------------------------
(* api/index.js: providerTikwm *)

ParseIntoKeepsOnFalsy(resp, old) ==
    IF IsTruthy(resp) /\ JSONparse(resp).ok /\ Truthy(JSONparse(resp).v)
    THEN JSONparse(resp).v ELSE old

\* if (resp) { try { data = JSON.parse(resp); } catch (e) { } }
ParseInto(resp, old) ==
    IF IsTruthy(resp) /\ JSONparse(resp).ok THEN JSONparse(resp).v ELSE old

NeedsGetUnlessZero(d) ==
    IF ~Truthy(d) THEN TRUE
    ELSE IF d.t # "object" THEN TRUE
    ELSE d.code # <<0>>

\* !data || (data.code !== undefined && data.code !== 0)
NeedsGet(d) ==
    IF ~Truthy(d) THEN TRUE
    ELSE IF d.t # "object" THEN FALSE
    ELSE d.code # <<>> /\ d.code # <<0>>

\* encodeURIComponent(url) throws a URIError on a lone surrogate
EncodeThrows(u) == \E i \in 1..Len(u) : u[i] = LoneSurrogate

hdUrl(video) == Or(video.hdplay, video.play)
sdUrl(video) == Or(video.play, video.hdplay)
musicUrl(video) == video.music
wmUrl(video) == video.wmplay
audioUrlMusicOnly(video) == musicUrl(video)
audioUrl(video) == Or(musicUrl(video), hdUrl(video))
mainUrlAudioFirst(video) ==
    Or(musicUrl(video), Or(hdUrl(video), Or(sdUrl(video), wmUrl(video))))
mainUrl(video) == Or(hdUrl(video), Or(sdUrl(video), Or(wmUrl(video), musicUrl(video))))

\* size_bytes is null for every variant: the payloads carry no size field
Variant(type_, name, u) == [type |-> type_, name |-> name, url |-> u]

variantsWatermarkFirst(video) ==
    (IF wmUrl(video) # ""
       THEN <<Variant("video-watermark", "WITH WATERMARK (MP4)", wmUrl(video))>> ELSE <<>>)
    \o (IF hdUrl(video) # ""
       THEN <<Variant("video-hd", "HD NO WATERMARK (MP4)", hdUrl(video))>> ELSE <<>>)
    \o (IF sdUrl(video) # ""
       THEN <<Variant("video-sd", "NO WATERMARK (MP4)", sdUrl(video))>> ELSE <<>>)
    \o (IF audioUrl(video) # ""
       THEN <<Variant("audio", "MP3 AUDIO", audioUrl(video))>> ELSE <<>>)

variants(video) ==
    (IF hdUrl(video) # ""
       THEN <<Variant("video-hd", "HD NO WATERMARK (MP4)", hdUrl(video))>> ELSE <<>>)
    \o (IF sdUrl(video) # ""
       THEN <<Variant("video-sd", "NO WATERMARK (MP4)", sdUrl(video))>> ELSE <<>>)
    \o (IF audioUrl(video) # ""
       THEN <<Variant("audio", "MP3 AUDIO", audioUrl(video))>> ELSE <<>>)
    \o (IF wmUrl(video) # ""
       THEN <<Variant("video-watermark", "WITH WATERMARK (MP4)", wmUrl(video))>> ELSE <<>>)

\* lines 130-193: what providerTikwm returns or throws for the payload d
TikwmFinish(d) ==
    IF ~Truthy(d) THEN Returned(ErrorEnvelope("TikWM no response"))
    ELSE IF d.t # "object"
    THEN Returned(ErrorEnvelope("TikWM: " \o "Unknown error"))
    ELSE IF d.code # <<0>>
    THEN Returned(ErrorEnvelope("TikWM: " \o Or(d.msg, "Unknown error")))
    ELSE IF d.data = <<>>
    THEN Threw("Cannot read properties of undefined (reading 'hdplay')")
    ELSE LET video == d.data[1] IN
         IF mainUrl(video) # ""
         THEN Returned([status |-> "tunnel",
                        url |-> mainUrl(video),
                        filename |-> "tiktok_" \o "video" \o ".mp4",
                        thumb |-> Null,
                        title |-> "TikTok Video",
                        author |-> "TikTok User",
                        variants |-> variants(video)])
         ELSE Returned(ErrorEnvelope("Video URL not found in TikWM"))

\* the provider returns or throws: back in the loop body
ProviderEnds(c, outcome) ==
    /\ ret' = outcome
    /\ pc' = "result"
    /\ inflight' = inflight \ {c}
    /\ UNCHANGED calls

\* fetchUrl of the POST has returned resp (lines 120-128)
TikwmAfterPost(c, resp) ==
    LET d == ParseInto(resp, Null) IN
    /\ data' = d
    /\ IF NeedsGet(d)
       THEN /\ debugLog' = Append(debugLog,
                              LogEntry("TikWM POST failed/empty, trying GET", "", ""))
            /\ IF EncodeThrows(url)
               THEN ProviderEnds(c, Threw("URI malformed"))
               ELSE /\ inflight' = (inflight \ {c}) \cup {NewCall("tikwm_get")}
                    /\ calls' = Append(calls, "tikwm_get")
                    /\ pc' = "tikwm_get"
                    /\ UNCHANGED ret
       ELSE /\ ProviderEnds(c, TikwmFinish(d))
            /\ UNCHANGED debugLog

\* fetchUrl of the GET has returned resp (lines 127-128)
TikwmAfterGet(c, resp) ==
    LET d == ParseInto(resp, data) IN
    /\ data' = d
    /\ ProviderEnds(c, TikwmFinish(d))
    /\ UNCHANGED debugLog

-----------------------------------------------------------------------------
(* api/index.js: providerSnaptik *)

\* lines 211-225: what providerSnaptik returns for the response text
SnaptikResult(resp) ==
    IF ~IsTruthy(resp) THEN Null
    ELSE IF ~JSONparse(resp).ok THEN Null
    ELSE LET d == JSONparse(resp).v IN
         IF ~Truthy(d) THEN Null
         ELSE IF d.status # "success" THEN Null
         ELSE [status |-> "tunnel",
               url |-> Or(d.video, Or(d.nwm_video_url, "")),
               filename |-> "tiktok_snaptik.mp4",
               title |-> Or(d.desc, "TikTok Video")]

\* 'Snaptik failed: ' + (data?.status || 'unknown') is logged when the text
\* parsed and the payload does not report success
SnaptikLogsFailure(resp) ==
    IF ~IsTruthy(resp) THEN FALSE
    ELSE IF ~JSONparse(resp).ok THEN FALSE
    ELSE IF ~Truthy(JSONparse(resp).v) THEN TRUE
    ELSE JSONparse(resp).v.status # "success"

SnaptikAfterPost(c, resp) ==
    /\ debugLog' =
         IF SnaptikLogsFailure(resp)
         THEN LET d == JSONparse(resp).v IN
              Append(debugLog,
                     LogEntry("Snaptik failed: ${status}", "",
                              IF Truthy(d) THEN Or(d.status, "unknown") ELSE "unknown"))
         ELSE debugLog
    /\ ProviderEnds(c, Returned(SnaptikResult(resp)))
    /\ UNCHANGED data

-----------------------------------------------------------------------------
(* api/index.js: fetchUrl.  A call ends with one of four events: the       *)
(* fetch() promise rejects on a network error ("network"), the call's own  *)
(* timer aborts it ("abort"), response.text() resolves with the body       *)
(* ("body"), or response.text() rejects ("bodyfail").                      *)

NetworkError == [ev |-> "network"]
Aborted == [ev |-> "abort"]
BodyRead(text) == [ev |-> "body", text |-> text]
BodyError == [ev |-> "bodyfail"]

fetchUrlRethrows(e) ==
    IF e.ev = "body" THEN Returned(e.text)
    ELSE Threw(IF e.ev = "abort" THEN "This operation was aborted" ELSE "fetch failed")

\* what fetchUrl hands to its caller: return await response.text(), or
\* return null from catch (e)
fetchUrlOutcome(e) ==
    IF e.ev = "body" THEN Returned(e.text) ELSE Returned(Null)

\* fetchUrl ends and the awaiting provider resumes (an exception out of
\* fetchUrl would leave the provider, which has no try around the call)
FetchUrlEnds(c, e) ==
    /\ fetched' = Append(fetched, [site |-> c.site, ev |-> e, out |-> fetchUrlOutcome(e)])
    /\ IF fetchUrlOutcome(e).k = "throw"
       THEN /\ ProviderEnds(c, fetchUrlOutcome(e))
            /\ UNCHANGED <<debugLog, data>>
       ELSE CASE c.site = "tikwm_post" -> TikwmAfterPost(c, fetchUrlOutcome(e).v)
              [] c.site = "tikwm_get" -> TikwmAfterGet(c, fetchUrlOutcome(e).v)
              [] c.site = "snaptik_post" -> SnaptikAfterPost(c, fetchUrlOutcome(e).v)
    /\ UNCHANGED <<req, response, fault, exc, url, platform, idx, finalResult, lastError,
                   rets, probeVars>>

\* line 262: clearTimeout(timeoutId), once fetch() has resolved
TimerAfterHeaders == "cleared"

\* the remote's response headers arrive: fetch() resolves, the timer is
\* cleared and fetchUrl awaits response.text()
FetchResolves ==
    \E c \in inflight :
        /\ c.site \in FetchUrlSites
        /\ c.phase = "fetch"
        /\ inflight' = (inflight \ {c})
                         \cup {[c EXCEPT !.phase = "body", !.timer = TimerAfterHeaders]}
        /\ UNCHANGED <<req, pc, response, fault, exc, mediaVars, calls, probeVars>>

\* a network error before the headers: fetch() rejects
FetchRejects ==
    \E c \in inflight :
        /\ c.site \in FetchUrlSites
        /\ c.phase = "fetch"
        /\ FetchUrlEnds(c, NetworkError)

\* the remote's body arrives: response.text() resolves
BodyArrives ==
    \E c \in inflight :
        /\ c.site \in FetchUrlSites
        /\ c.phase = "body"
        /\ \E text \in BodyTexts(c.site) : FetchUrlEnds(c, BodyRead(text))

\* the connection breaks while the body is read: response.text() rejects
BodyFails ==
    \E c \in inflight :
        /\ c.site \in FetchUrlSites
        /\ c.phase = "body"
        /\ FetchUrlEnds(c, BodyError)

\* the call's timer fires while it is armed: controller.abort() rejects
\* whichever of fetch() and response.text() is pending
FetchTimerFires ==
    \E c \in inflight :
        /\ c.site \in FetchUrlSites
        /\ c.timer = "armed"
        /\ FetchUrlEnds(c, Aborted)

-----------------------------------------------------------------------------
(* Numbers in strings *)

Digits == <<"0", "1", "2", "3", "4", "5", "6", "7", "8", "9">>

IsDigit(c) == \E d \in 1..10 : Digits[d] = c

DigitValue(c) == (CHOOSE d \in 1..10 : Digits[d] = c) - 1

\* the length of the longest prefix of s made of digits
RECURSIVE DigitPrefixLen(_)
DigitPrefixLen(s) ==
    IF s = <<>> THEN 0
    ELSE IF IsDigit(Head(s)) THEN 1 + DigitPrefixLen(Tail(s))
    ELSE 0

\* the number written by the digit string s
RECURSIVE DigitsValue(_)
DigitsValue(s) ==
    IF s = <<>> THEN 0
    ELSE 10 * DigitsValue(SubSeq(s, 1, Len(s) - 1)) + DigitValue(s[Len(s)])

NaN == [t |-> "NaN"]

\* parseInt(s, 10) of an unsigned string: leading white space is skipped and
\* the digits up to the first other character are read; NaN if there are none
parseInt(s) ==
    LET body == IF \A k \in 1..Len(s) : IsSpace(s[k]) THEN <<>>
                ELSE SubSeq(s, CHOOSE k \in 1..Len(s) :
                                   /\ ~IsSpace(s[k])
                                   /\ \A j \in 1..(k - 1) : IsSpace(s[j]), Len(s))
        n == DigitPrefixLen(body)
    IN IF n = 0 THEN NaN ELSE Num(DigitsValue(SubSeq(body, 1, n)))

\* Number(s) of an unsigned string: the whole trimmed string must be digits
\* ('' is 0)
ToNumber(s) ==
    LET body == Trim(s) IN
    IF DigitPrefixLen(body) = Len(body) THEN Num(DigitsValue(body)) ELSE NaN

\* JSON.stringify writes NaN as null
JsonNumber(v) == IF v = NaN THEN Null ELSE v

RECURSIVE NatToString(_)
NatToString(n) ==
    IF n < 10 THEN Digits[n + 1]
    ELSE NatToString(n \div 10) \o Digits[(n % 10) + 1]

-----------------------------------------------------------------------------
(* api/filesize.js: formatBytes *)

RECURSIVE Pow(_, _)
Pow(b, e) == IF e = 0 THEN 1 ELSE b * Pow(b, e - 1)

\* Math.floor(Math.log(n) / Math.log(1024)) for n >= 1 (the quotient of the
\* two logarithms is exact at the powers of 1024 within the sizes modelled)
RECURSIVE FloorLog(_, _)
FloorLog(n, k) == IF n < k THEN 0 ELSE 1 + FloorLog(n \div k, k)

sizes == <<"Bytes", "KB", "MB", "GB", "TB">>

\* parseFloat(x.toFixed(2)) written out, for x = n / d: x is rounded to the
\* nearest hundredth (a tie goes up) and the trailing zeros are dropped
FixedToString(n, d) ==
    LET h == (200 * n + d) \div (2 * d)
        whole == NatToString(h \div 100)
        frac == h % 100
    IN IF frac = 0 THEN whole
       ELSE IF frac % 10 = 0 THEN whole \o "." \o NatToString(frac \div 10)
       ELSE whole \o "." \o NatToString(frac \div 10) \o NatToString(frac % 10)

\* formatBytes(bytes) with the default decimals = 2; bytes is a number or a
\* string, which Math.log and the division convert to a number
formatBytes(bytes) ==
    IF ~Truthy(bytes) THEN "Unknown"
    ELSE IF bytes.t = "number" /\ bytes.n = 0 THEN "0 Bytes"
    ELSE LET x == IF bytes.t = "string" THEN ToNumber(bytes.s) ELSE bytes IN
         IF x = NaN THEN "NaN undefined"
         ELSE IF x.n <= 0 THEN "NaN undefined"
         ELSE LET i == FloorLog(x.n, 1024) IN
              FixedToString(x.n, Pow(1024, i))
                  \o " " \o (IF i + 1 <= Len(sizes) THEN sizes[i + 1] ELSE "undefined")

-----------------------------------------------------------------------------
(* api/filesize.js: the handler *)

\* what a remote may answer to the HEAD request: response.ok and the two
\* headers read (null when absent)
HeadResponses ==
    [ok : BOOLEAN,
     length : {Null, Str(<<"0">>), Str(<<"1", "0", "2", "4">>),
               Str(<<"1", "0", "4", "8", "5", "7", "6">>)},
     type : {Null, Str(<<"v", "i", "d", "e", "o", "/", "m", "p", "4">>)}]

\* what a remote may answer to the ranged GET
RangeResponses ==
    [ok : BOOLEAN,
     range : {Null,
              Str(<<"b", "y", "t", "e", "s", " ", "0", "-", "0", "/", "5", "0", "0", "0", "0", "0">>),
              Str(<<"b", "y", "t", "e", "s", " ", "0", "-", "0", "/", "*">>)},
     length : {Null, Str(<<"1">>), Str(<<"7", "0", "0">>)}]

IsProbe == req.endpoint = "size" /\ pc = "recv"

ProbePreflight ==
    /\ IsProbe
    /\ req.method = "OPTIONS"
    /\ Send(200, NoBody)
    /\ UNCHANGED <<req, fault, exc, mediaVars, inflight, calls, probeVars>>

\* if (!url)
ProbeMissingUrl ==
    /\ IsProbe
    /\ req.method # "OPTIONS"
    /\ req.url = <<>>
    /\ Send(400, [error |-> "URL parameter is required"])
    /\ UNCHANGED <<req, fault, exc, mediaVars, inflight, calls, probeVars>>

ProbeStart ==
    /\ IsProbe
    /\ req.method # "OPTIONS"
    /\ req.url # <<>>
    /\ StartCall("head")
    /\ pc' = "head"
    /\ UNCHANGED <<req, response, fault, exc, mediaVars, probeVars>>

\* lines 65-69
ProbeResult(sz, ty) ==
    [size |-> IF Truthy(sz) THEN JsonNumber(parseInt(sz.s)) ELSE Null,
     type |-> ty,
     formatted |-> IF Truthy(sz) THEN formatBytes(sz) ELSE "Unknown"]

\* if (!size && response.ok)
NeedsRange(sz, ok) == ~Truthy(sz) /\ ok

\* the HEAD response arrives: clearTimeout, read the headers, then either
\* the ranged GET is issued or the answer is sent
HeadResolves ==
    \E c \in inflight, r \in HeadResponses :
        /\ c.site = "head"
        /\ c.phase = "fetch"
        /\ headResponse' = <<r>>
        /\ size' = r.length
        /\ type' = r.type
        /\ IF NeedsRange(r.length, r.ok)
           THEN /\ inflight' = (inflight \ {c}) \cup {NewCall("range")}
                /\ calls' = Append(calls, "range")
                /\ pc' = "range"
                /\ UNCHANGED response
           ELSE /\ inflight' = inflight \ {c}
                /\ Send(200, ProbeResult(r.length, r.type))
                /\ UNCHANGED calls
        /\ UNCHANGED <<req, fault, exc, mediaVars, rangeResponse>>

HeadThrowsSwallowed(c, msg) ==
    /\ c.site = "head"
    /\ inflight' = inflight \ {c}
    /\ exc' = msg
    /\ Send(200, ProbeResult(size, type))
    /\ UNCHANGED <<req, fault, mediaVars, calls, probeVars>>

\* catch (error): error.message || 'Server error'
HeadThrows(c, msg) ==
    /\ c.site = "head"
    /\ inflight' = inflight \ {c}
    /\ exc' = msg
    /\ Send(500, [error |-> IF msg # "" THEN msg ELSE "Server error"])
    /\ UNCHANGED <<req, fault, mediaVars, calls, probeVars>>

\* contentRange.match(/\/(\d+)$/): a slash followed by digits up to the end
HasTotal(cr) ==
    \E k \in 1..(Len(cr) - 1) :
        /\ cr[k] = "/"
        /\ \A j \in (k + 1)..Len(cr) : IsDigit(cr[j])

\* match[1]
TotalOf(cr) ==
    LET k == CHOOSE k \in 1..(Len(cr) - 1) :
                 /\ cr[k] = "/"
                 /\ \A j \in (k + 1)..Len(cr) : IsDigit(cr[j])
    IN SubSeq(cr, k + 1, Len(cr))

SizeAfterRangeLengthFirst(sz, r) ==
    IF ~r.ok THEN sz
    ELSE IF Truthy(r.length) THEN r.length
    ELSE IF Truthy(r.range) /\ HasTotal(r.range.s) THEN Str(TotalOf(r.range.s))
    ELSE sz

\* lines 50-59: size after the ranged response r (size was falsy before)
SizeAfterRange(sz, r) ==
    IF ~r.ok THEN sz
    ELSE LET fromRange == IF Truthy(r.range) /\ HasTotal(r.range.s)
                          THEN Str(TotalOf(r.range.s)) ELSE sz
         IN IF ~Truthy(fromRange) THEN r.length ELSE fromRange

RangeResolves ==
    \E c \in inflight, r \in RangeResponses :
        /\ c.site = "range"
        /\ c.phase = "fetch"
        /\ inflight' = inflight \ {c}
        /\ rangeResponse' = <<r>>
        /\ size' = SizeAfterRange(size, r)
        /\ Send(200, ProbeResult(SizeAfterRange(size, r), type))
        /\ UNCHANGED <<req, fault, exc, mediaVars, calls, headResponse, type>>

\* the inner catch: console.error, and the answer is sent with size as it is
RangeThrows(c, msg) ==
    /\ c.site = "range"
    /\ inflight' = inflight \ {c}
    /\ Send(200, ProbeResult(size, type))
    /\ UNCHANGED <<req, fault, exc, mediaVars, calls, probeVars>>

\* a network error: fetch() rejects
ProbeFetchRejects ==
    \E c \in inflight :
        /\ c.phase = "fetch"
        /\ IF c.site = "head" THEN HeadThrows(c, "fetch failed")
           ELSE RangeThrows(c, "fetch failed")

\* the call's timer fires: controller.abort() rejects the pending fetch()
ProbeTimerFires ==
    \E c \in inflight :
        /\ c.timer = "armed"
        /\ IF c.site = "head" THEN HeadThrows(c, "This operation was aborted")
           ELSE RangeThrows(c, "This operation was aborted")

Next ==
    \/ Preflight
    \/ HealthCheck
    \/ MethodNotAllowed
    \/ PostInvalid
    \/ PostTrimThrows
    \/ PostBegin
    \/ GlobalCatch
    \/ LoopDone
    \/ ProviderDeclines
    \/ TikwmStart
    \/ SnaptikStart
    \/ HandleResult
    \/ Respond
    \/ FetchResolves
    \/ FetchRejects
    \/ BodyArrives
    \/ BodyFails
    \/ FetchTimerFires
    \/ ProbePreflight
    \/ ProbeMissingUrl
    \/ ProbeStart
    \/ HeadResolves
    \/ RangeResolves
    \/ ProbeFetchRejects
    \/ ProbeTimerFires

Spec == Init /\ [][Next]_vars

\* The handler's own code always runs on: a step that needs no remote is
\* eventually taken.
HandlerStep ==
    \/ Preflight
    \/ HealthCheck
    \/ MethodNotAllowed
    \/ PostInvalid
    \/ PostTrimThrows
    \/ PostBegin
    \/ GlobalCatch
    \/ LoopDone
    \/ ProviderDeclines
    \/ TikwmStart
    \/ SnaptikStart
    \/ HandleResult
    \/ Respond
    \/ ProbePreflight
    \/ ProbeMissingUrl
    \/ ProbeStart

\* An armed timer eventually fires.
TimerStep == FetchTimerFires \/ ProbeTimerFires

\* Nothing is assumed of the remotes: they may answer, fail or stall.
FairSpec == Spec /\ WF_vars(HandlerStep) /\ WF_vars(TimerStep)

-----------------------------------------------------------------------------
(* Properties *)

Answered == pc = "done" /\ response # <<>>
Body == response[1].body
IsPost == req.endpoint = "media" /\ req.method = "POST"

\* a provider's return value whose status is present and not "error"
SuccessShaped(v) ==
    IF v = Null THEN FALSE
    ELSE IF "status" \notin DOMAIN v THEN FALSE
    ELSE v.status \notin {"", "error"}

\* the i-th provider invoked returned a success
Succeeded(i) ==
    IF Len(rets) < i THEN FALSE
    ELSE IF rets[i].k # "return" THEN FALSE
    ELSE SuccessShaped(rets[i].v)

\* the i-th provider invoked returned an error result or threw
Errored(i) ==
    IF Len(rets) < i THEN FALSE
    ELSE IF rets[i].k = "throw" THEN TRUE
    ELSE IF rets[i].v = Null THEN FALSE
    ELSE rets[i].v.status = "error"

SnaptikCalled == \E i \in 1..Len(calls) : calls[i] = "snaptik_post"

SnaptikTried ==
    \E i \in 1..Len(debugLog) :
        debugLog[i].tpl = "Trying provider: ${name}" /\ debugLog[i].name = "providerSnaptik"

\* C1: once providerTikwm has returned a result whose status is present and
\* not "error", providerSnaptik is not invoked in that request: no Snaptik
\* call is issued and no "Trying provider: providerSnaptik" entry is logged,
\* whatever the TikWM payload and the debug flag.
C1_ShortCircuit ==
    (IsPost /\ Succeeded(1)) =>
        /\ ~SnaptikCalled
        /\ ~SnaptikTried
        /\ Len(rets) = 1
        /\ pc \in {"respond", "done"}

C1_Witness ==
    /\ IsPost
    /\ Answered
    /\ Succeeded(1)
    /\ req.debug
    /\ calls = <<"tikwm_post", "tikwm_get">>

FailureEntries ==
    {i \in 1..Len(debugLog) :
        debugLog[i].tpl \in {"Failed ${name}: ${text}", "Exception ${name}: ${message}"}}

SuccessEntries == {i \in 1..Len(debugLog) : debugLog[i].tpl = "Success with ${name}"}

OneFailureThenOneSuccess ==
    /\ Cardinality(FailureEntries) = 1
    /\ Cardinality(SuccessEntries) = 1
    /\ \A f \in FailureEntries, k \in SuccessEntries :
        /\ f < k
        /\ debugLog[f].name = "providerTikwm"
        /\ debugLog[k].name = "providerSnaptik"

FirstErroredSecondSucceeded == IsPost /\ Answered /\ Errored(1) /\ Succeeded(2)

\* C2 as stated: if providerTikwm errors and providerSnaptik succeeds, the
\* response body equals providerSnaptik's result and the log holds exactly
\* one failure entry followed by exactly one success entry.
C2_BodyEqualsSecondResult ==
    FirstErroredSecondSucceeded =>
        /\ Body = rets[2].v
        /\ OneFailureThenOneSuccess

\* C2 amended: the response body carries every field of providerSnaptik's
\* result unchanged and nothing else but the debug field, which is present
\* exactly when the debug flag is set and then holds the log; the log holds
\* exactly one failure entry followed by exactly one success entry.
C2_BodyIsSecondResultPlusDebug ==
    FirstErroredSecondSucceeded =>
        /\ DOMAIN Body \ {"debug"} = DOMAIN rets[2].v
        /\ \A f \in DOMAIN rets[2].v : Body[f] = rets[2].v[f]
        /\ ("debug" \in DOMAIN Body) = req.debug
        /\ req.debug => Body.debug = debugLog
        /\ OneFailureThenOneSuccess

C2_Witness ==
    /\ FirstErroredSecondSucceeded
    /\ rets[1].k = "throw"
    /\ req.debug
    /\ Body.url = MediaUrl("nwm")

\* the error the loop recorded last: the message of a throw or the text of
\* a result, "" when no provider recorded one
RECURSIVE LastRecorded(_)
LastRecorded(outcomes) ==
    IF outcomes = <<>> THEN ""
    ELSE LET last == outcomes[Len(outcomes)] IN
         IF last.k = "throw" THEN last.msg
         ELSE IF last.v = Null THEN LastRecorded(SubSeq(outcomes, 1, Len(outcomes) - 1))
         ELSE IF "text" \notin DOMAIN last.v
              THEN LastRecorded(SubSeq(outcomes, 1, Len(outcomes) - 1))
         ELSE last.v.text

AllFailed ==
    /\ IsPost
    /\ Answered
    /\ Len(rets) = Len(providers)
    /\ \A i \in 1..Len(rets) : ~Succeeded(i)

\* C3: if every provider returns null, returns an error result or throws,
\* the payload has status "error" and its text embeds the error recorded
\* last (a later null does not erase it), or the default message when none
\* was recorded.
C3_LastErrorReported ==
    AllFailed =>
        /\ Body.status = "error"
        /\ Body.text = "Gagal memproses link. "
                         \o (IF LastRecorded(rets) # "" THEN LastRecorded(rets)
                             ELSE "Server sibuk atau timeout")
                         \o "."

C3_Witness ==
    /\ AllFailed
    /\ rets[1].k = "return"
    /\ rets[1].v = ErrorEnvelope("TikWM: Url parsing is failed!")
    /\ rets[2] = Returned(Null)
    /\ Body.text = "Gagal memproses link. TikWM: Url parsing is failed!."

\* C4: the resolve-media handler answers 405 exactly for the methods other
\* than OPTIONS, GET and POST; every answer to a POST has status 200 and a
\* body that is a tunnel result or carries status "error"; no exception
\* leaves the handler.
C4_AlwaysOk ==
    req.endpoint = "media" =>
        /\ ~fault
        /\ pc = "done" => response # <<>>
        /\ Answered =>
            /\ (response[1].status = 405) = (req.method \notin {"OPTIONS", "GET", "POST"})
            /\ req.method = "POST" =>
                /\ response[1].status = 200
                /\ "status" \in DOMAIN Body
                /\ Body.status \in {"tunnel", "error"}
                /\ Body.status = "tunnel" => Succeeded(Len(rets))

C4_Witness ==
    /\ IsPost
    /\ Answered
    /\ exc # ""
    /\ response[1].status = 200
    /\ Body.status = "error"

\* the bodies C5 names: missing, a string that is not valid JSON, not an
\* object, or an object without a url field
Malformed(b) ==
    IF b.t \in {"undefined", "null", "number"} THEN TRUE
    ELSE IF b.t = "text"
         THEN IF b.json = <<>> THEN TRUE
              ELSE IF b.json[1].t # "object" THEN TRUE
              ELSE b.json[1].url = Undefined
    ELSE b.url = Undefined

\* C5: a POST whose body is missing, is not valid JSON, is not an object or
\* has no url field is answered with a status "error" envelope; no provider
\* is invoked and no outbound call is made.
C5_MalformedBodyRejected ==
    (IsPost /\ Malformed(req.body)) =>
        /\ pc \in {"recv", "done"}
        /\ ~fault
        /\ calls = <<>>
        /\ inflight = {}
        /\ rets = <<>>
        /\ debugLog = <<>>
        /\ pc = "done" =>
            /\ response # <<>>
            /\ "status" \in DOMAIN Body
            /\ Body.status = "error"

C5_Witness ==
    /\ IsPost
    /\ Answered
    /\ req.body = Garbage
    /\ Body.status = "error"

\* C6: when the detected platform is not "tiktok", both providers return
\* null without an outbound call, no error is recorded, and the request
\* ends with the status "error" envelope carrying the default message.
C6_OtherPlatformsDecline ==
    (IsPost /\ platform \notin {"", "tiktok"}) =>
        /\ calls = <<>>
        /\ inflight = {}
        /\ lastError = ""
        /\ \A i \in 1..Len(rets) : rets[i] = Returned(Null)
        /\ pc = "done" =>
            /\ response # <<>>
            /\ Len(rets) = 2
            /\ Body.status = "error"
            /\ Body.text = "Gagal memproses link. Server sibuk atau timeout."

C6_Witness ==
    /\ IsPost
    /\ Answered
    /\ platform = "twitter"
    /\ rets = <<Returned(Null), Returned(Null)>>

\* C7: every result with status "tunnel" that a provider returns, and so
\* every tunnel result sent to the client, carries a non-empty url.
C7_TunnelHasUrl ==
    /\ \A i \in 1..Len(rets) :
        Succeeded(i) => (rets[i].v.status = "tunnel" => rets[i].v.url # "")
    /\ (IsPost /\ Answered) => (Body.status = "tunnel" => Body.url # "")

\* C8: every accepted request eventually sends its response, assuming only
\* that the handler's code runs on and that an armed timer eventually fires
\* (FairSpec): no stalling remote keeps the handler waiting forever.
C8_EveryRequestAnswered == <>(pc = "done")

\* a call of fetchUrl that failed: a network error, a timeout, a broken
\* body, or a body that is not JSON
FailedFetch(f) ==
    IF f.ev.ev # "body" THEN TRUE ELSE f.ev.text.json = <<>>

\* C9 as stated: fetchUrl never raises, and on every failure of the call
\* (network error, non-JSON body, timeout) the provider receives an empty or
\* null value from it.
C9_FailureYieldsNull ==
    \A i \in 1..Len(fetched) :
        /\ fetched[i].out.k = "return"
        /\ FailedFetch(fetched[i]) => ~IsTruthy(fetched[i].out.v)

\* C9 amended: fetchUrl never raises; on a network error, a timeout or a
\* broken body it returns null, and a body that arrived is returned as it is,
\* JSON or not.  It is the provider's own guarded parse that makes a non-JSON
\* body "no data", exactly as for null: after a failed POST providerTikwm
\* holds no data, after a failed POST and a failed GET it returns
\* "TikWM no response", after a failed call providerSnaptik returns null, and
\* a provider throws only for a malformed URL or a payload without data.
C9_NeverRaisesNoData ==
    /\ \A i \in 1..Len(fetched) :
        /\ fetched[i].out.k = "return"
        /\ fetched[i].ev.ev # "body" => fetched[i].out.v = Null
        /\ fetched[i].ev.ev = "body" => fetched[i].out.v = fetched[i].ev.text
    /\ (Len(fetched) = 1 /\ FailedFetch(fetched[1])) => data = Null
    /\ (pc = "result" /\ idx = 1 /\ Len(fetched) = 2
          /\ FailedFetch(fetched[1]) /\ FailedFetch(fetched[2])) =>
            ret = Returned(ErrorEnvelope("TikWM no response"))
    /\ (pc = "result" /\ idx = 2 /\ fetched # <<>>) =>
            (FailedFetch(fetched[Len(fetched)]) => ret = Returned(Null))
    /\ ret.k = "throw" =>
            ret.msg \in {"URI malformed",
                         "Cannot read properties of undefined (reading 'hdplay')"}

C9_Witness ==
    /\ pc = "result"
    /\ idx = 1
    /\ Len(fetched) = 2
    /\ fetched[1].ev = BodyRead(Garbage)
    /\ fetched[1].out = Returned(Garbage)
    /\ fetched[2].ev = Aborted
    /\ ret = Returned(ErrorEnvelope("TikWM no response"))

RangeIssued == \E i \in 1..Len(calls) : calls[i] = "range"

\* the characters of s after its last slash (<<>> when s has no slash)
AfterFinalSlash(s) ==
    IF \A k \in 1..Len(s) : s[k] # "/" THEN <<>>
    ELSE LET k == CHOOSE k \in 1..Len(s) :
                      s[k] = "/" /\ \A j \in (k + 1)..Len(s) : s[j] # "/"
         IN SubSeq(s, k + 1, Len(s))

AllDigits(s) == s # <<>> /\ \A k \in 1..Len(s) : IsDigit(s[k])

\* a header value as a number, null when the header is absent
HeaderNumber(h) == IF h = Null THEN Null ELSE JsonNumber(parseInt(h.s))

\* the ranged GET is issued if and only if HEAD answered ok without a
\* content-length; with a content-length from HEAD that value is reported
RangeIffNoLength ==
    /\ req.endpoint = "size" => (headResponse = <<>> => ~RangeIssued)
    /\ headResponse # <<>> =>
        /\ RangeIssued = (~Truthy(headResponse[1].length) /\ headResponse[1].ok)
        /\ (Truthy(headResponse[1].length) /\ Answered) =>
            Body.size = HeaderNumber(headResponse[1].length)

\* C10 as stated: the ranged GET is issued iff HEAD succeeded without a
\* content-length; the size reported is then the total after the final slash
\* of the ranged response's content-range, or that response's content-length
\* if it has no content-range; a content-length from HEAD is reported as is.
C10_SizeFromRangedResponse ==
    /\ RangeIffNoLength
    /\ (rangeResponse # <<>> /\ Answered) =>
        Body.size = IF rangeResponse[1].range # Null
                    THEN JsonNumber(parseInt(AfterFinalSlash(rangeResponse[1].range.s)))
                    ELSE HeaderNumber(rangeResponse[1].length)

\* C10 amended: as stated, but only for a ranged response that is itself
\* ok: its content-range gives the size when it ends in a slash and digits,
\* otherwise (no content-range, or one without a numeric total) its
\* content-length does; when the ranged response is not ok, or the ranged
\* request fails, the size reported is null.
C10_SizeFromOkRangedResponse ==
    /\ RangeIffNoLength
    /\ (rangeResponse # <<>> /\ Answered) =>
        Body.size =
            IF ~rangeResponse[1].ok THEN Null
            ELSE IF rangeResponse[1].range # Null
                    /\ AllDigits(AfterFinalSlash(rangeResponse[1].range.s))
            THEN JsonNumber(parseInt(AfterFinalSlash(rangeResponse[1].range.s)))
            ELSE HeaderNumber(rangeResponse[1].length)
    /\ (RangeIssued /\ rangeResponse = <<>> /\ Answered) =>
        (Body.size = Null /\ Body.formatted = "Unknown")

C10_Witness ==
    /\ Answered
    /\ RangeIssued
    /\ rangeResponse # <<>>
    /\ rangeResponse[1].ok
    /\ rangeResponse[1].range
         = Str(<<"b", "y", "t", "e", "s", " ", "0", "-", "0", "/", "5", "0", "0", "0", "0", "0">>)
    /\ rangeResponse[1].length = Str(<<"1">>)
    /\ Body.size = Num(500000)
    /\ Body.formatted = "488.28 KB"

-----------------------------------------------------------------------------
(* The size prober's answers *)

IsProbeRequest == req.endpoint = "size" /\ req.method # "OPTIONS"

\* the HEAD request was issued and ended with an exception: the handler has
\* answered without ever holding a HEAD response
HeadRaised == IsProbeRequest /\ Answered /\ calls # <<>> /\ headResponse = <<>>

\* the ranged GET was issued and ended with an exception
RangeRaised == IsProbeRequest /\ Answered /\ RangeIssued /\ rangeResponse = <<>>

IsErrorBody(b) == DOMAIN b = {"error"} /\ b.error # ""
IsSizeBody(b) == DOMAIN b = {"size", "type", "formatted"}

\* a missing url is answered 400 {error} and no outbound call is made
MissingUrlRejected ==
    (IsProbeRequest /\ req.url = <<>>) =>
        /\ calls = <<>>
        /\ inflight = {}
        /\ pc \in {"recv", "done"}
        /\ Answered => (response[1].status = 400 /\ IsErrorBody(Body))

\* C11 as stated: for a non-OPTIONS request to the size prober a missing url
\* is answered 400 {error} without an outbound call; an exception raised by
\* any outbound call of the probe is answered 500 {error}; every other
\* answer is 200 {size, type, formatted}; no exception leaves the handler.
C11_EveryExceptionIs500 ==
    /\ req.endpoint = "size" => ~fault
    /\ MissingUrlRejected
    /\ (IsProbeRequest /\ Answered /\ req.url # <<>>) =>
        IF HeadRaised \/ RangeRaised
        THEN response[1].status = 500 /\ IsErrorBody(Body)
        ELSE response[1].status = 200 /\ IsSizeBody(Body)

\* C11 amended: as stated for the HEAD request, whose exception is answered
\* 500 {error} with the exception's message; an exception raised by the
\* ranged GET is caught where it is made and the answer is still 200
\* {size, type, formatted}, with size null, formatted "Unknown" and the type
\* that HEAD reported.
C11_HeadExceptionIs500 ==
    /\ req.endpoint = "size" => ~fault
    /\ MissingUrlRejected
    /\ (IsProbeRequest /\ Answered /\ req.url # <<>>) =>
        IF HeadRaised
        THEN /\ response[1].status = 500
             /\ IsErrorBody(Body)
             /\ Body.error = exc
             /\ calls = <<"head">>
        ELSE /\ response[1].status = 200
             /\ IsSizeBody(Body)
             /\ RangeRaised =>
                 /\ Body.size = Null
                 /\ Body.formatted = "Unknown"
                 /\ Body.type = headResponse[1].type

C11_Witness ==
    /\ RangeRaised
    /\ req.method = "POST"
    /\ calls = <<"head", "range">>
    /\ response[1].status = 200
    /\ Body.size = Null
    /\ Body.type = Str(<<"v", "i", "d", "e", "o", "/", "m", "p", "4">>)

\* the base-1024 magnitude of n >= 1: 0 for Bytes, 1 for KB, 2 for MB, ...
Magnitude(n) == CHOOSE i \in 0..8 : Pow(1024, i) <= n /\ n < Pow(1024, i + 1)

\* C12: in the prober's result a size of 0 is formatted "0 Bytes", an
\* unknown (null) size "Unknown", and any other size as a value with the
\* unit of its base-1024 magnitude (1024 is "1 KB", 1048576 is "1 MB"); a
\* resource whose reported length is 0 gets size 0 and formatted "0 Bytes".
C12_ZeroIsZeroBytes ==
    (IsProbeRequest /\ Answered /\ response[1].status = 200) =>
        /\ Body.size = Null => Body.formatted = "Unknown"
        /\ Body.size = Num(0) => Body.formatted = "0 Bytes"
        /\ Body.size = Num(1024) => Body.formatted = "1 KB"
        /\ Body.size = Num(1048576) => Body.formatted = "1 MB"
        /\ (Body.size # Null /\ Body.size # Num(0)) =>
            Body.formatted = FixedToString(Body.size.n, Pow(1024, Magnitude(Body.size.n)))
                               \o " " \o sizes[Magnitude(Body.size.n) + 1]
        /\ size = Str(<<"0">>) => (Body.size = Num(0) /\ Body.formatted = "0 Bytes")

-----------------------------------------------------------------------------
(* Platform detection *)

\* the platforms in their priority order, each with the literal patterns
\* that stand for its domain (matched anywhere in the address, whatever the
\* case of its letters)
Priority ==
    <<[platform |-> "tiktok", patterns |-> {<<"t", "i", "k", "t", "o", "k", ".", "c", "o", "m">>}],
      [platform |-> "youtube", patterns |-> {<<"y", "o", "u", "t", "u", "b", "e">>,
                                             <<"y", "o", "u", "t", "u", ".", "b", "e">>}],
      [platform |-> "instagram", patterns |-> {<<"i", "n", "s", "t", "a", "g", "r", "a", "m", ".", "c", "o", "m">>}],
      [platform |-> "twitter", patterns |-> {<<"t", "w", "i", "t", "t", "e", "r", ".", "c", "o", "m">>,
                                             <<"x", ".", "c", "o", "m">>}],
      [platform |-> "facebook", patterns |-> {<<"f", "a", "c", "e", "b", "o", "o", "k", ".", "c", "o", "m">>,
                                              <<"f", "b", ".", "w", "a", "t", "c", "h">>}]>>

MatchesPlatform(u, k) == \E p \in Priority[k].patterns : Contains(ToLower(u), p)

MatchedPlatforms(u) == {k \in 1..Len(Priority) : MatchesPlatform(u, k)}

\* C13: detectPlatform returns the platform of the first pattern, in the
\* order tiktok, youtube, instagram, twitter, facebook, that matches the
\* address (an address matching several gets the earliest), and "unknown"
\* for an address that matches none; it never fails: the handler goes on to
\* the provider loop with the platform set.
C13_FirstMatchInPriorityOrder ==
    (IsPost /\ pc \notin {"recv", "catch"} /\ (pc = "done" => rets # <<>>)) =>
        /\ exc = ""
        /\ platform =
             IF MatchedPlatforms(url) = {} THEN "unknown"
             ELSE Priority[CHOOSE k \in MatchedPlatforms(url) :
                              \A j \in MatchedPlatforms(url) : k <= j].platform

C13_Witness ==
    /\ IsPost
    /\ pc = "loop"
    /\ url = UrlTikTokYoutube
    /\ MatchedPlatforms(url) = {1, 2}
    /\ platform = "tiktok"

-----------------------------------------------------------------------------
(* Exceptions of a provider *)

\* the log holds the "Exception" entry of the i-th provider invoked, with
\* the message it threw
ExceptionLogged(i) ==
    \E j \in 1..Len(debugLog) :
        debugLog[j] = LogEntry("Exception ${name}: ${message}", providers[i], rets[i].msg)

\* the log holds the "Trying provider" entry of the i-th provider
TriedProvider(i) ==
    \E j \in 1..Len(debugLog) : debugLog[j] = Trying(providers[i])

\* C14: an exception thrown by a provider (providerTikwm given a payload
\* with code 0 and no data, for one) is caught inside the loop: its message
\* becomes the last error, an "Exception" entry is logged and the next
\* provider in the list is still invoked; the exception neither ends the
\* chain nor reaches the handler's outer catch.
C14_ProviderExceptionContained ==
    (IsPost /\ rets # <<>>) =>
        /\ exc = ""
        /\ pc # "catch"
        /\ ~fault
        /\ \A i \in 1..Len(rets) :
            rets[i].k = "throw" =>
                /\ ExceptionLogged(i)
                /\ (Len(rets) = i /\ pc = "loop") => (lastError = rets[i].msg /\ idx = i + 1)
                /\ (i < Len(providers) /\ pc \in {"respond", "done"}) =>
                    /\ Len(rets) > i
                    /\ TriedProvider(i + 1)
                    /\ calls[Len(calls)] = "snaptik_post"

C14_Witness ==
    /\ IsPost
    /\ Answered
    /\ rets = <<Threw("Cannot read properties of undefined (reading 'hdplay')"),
                Returned(Null)>>
    /\ calls = <<"tikwm_post", "snaptik_post">>
    /\ Body.text
         = "Gagal memproses link. Cannot read properties of undefined (reading 'hdplay')."

-----------------------------------------------------------------------------
(* providerTikwm: the GET retry *)

GetCalls == {i \in 1..Len(calls) : calls[i] = "tikwm_get"}
GetIssued == GetCalls # {}

\* what fetchUrl handed back for the call f: nothing (null or an empty body)
Absent(f) == ~IsTruthy(f.out.v)

\* a body that is not JSON
Unparseable(f) == IF Absent(f) THEN FALSE ELSE f.out.v.json = <<>>

\* the value the body of f parses to (only for a body that parses)
Parsed(f) == f.out.v.json[1]

Parseable(f) == ~Absent(f) /\ ~Unparseable(f)

\* a payload that carries a code field other than 0
ReportsNonZero(f) ==
    IF ~Parseable(f) THEN FALSE
    ELSE IF Parsed(f).t # "object" THEN FALSE
    ELSE Parsed(f).code # <<>> /\ Parsed(f).code # <<0>>

ReportsZero(f) ==
    IF ~Parseable(f) THEN FALSE
    ELSE IF Parsed(f).t # "object" THEN FALSE
    ELSE Parsed(f).code = <<0>>

\* a body that parses to a falsy value (the JSON text null)
ParsedFalsy(f) == IF ~Parseable(f) THEN FALSE ELSE ~Truthy(Parsed(f))

HasLoneSurrogate(u) == \E i \in 1..Len(u) : u[i] = LoneSurrogate

\* what is common to C15 as stated and as amended: no GET before the POST
\* has ended, at most one GET, and none after a payload with code 0
GetAtMostOnce ==
    /\ fetched = <<>> => ~GetIssued
    /\ Cardinality(GetCalls) <= 1
    /\ GetIssued => (calls[1] = "tikwm_post" /\ calls[2] = "tikwm_get")
    /\ (fetched # <<>> /\ ReportsZero(fetched[1])) => ~GetIssued

\* C15 as stated: providerTikwm issues its GET retry if and only if the POST
\* response is absent, unparseable, or reports a non-zero code; the GET is
\* issued at most once, and never after a POST payload with code 0.
C15_GetIffPostFailed ==
    /\ GetAtMostOnce
    /\ fetched # <<>> =>
        GetIssued = (Absent(fetched[1]) \/ Unparseable(fetched[1])
                        \/ ReportsNonZero(fetched[1]))

\* C15 amended: the retry is decided on the parsed payload, so a POST body
\* that parses to a falsy value (the JSON text null) counts as no data too;
\* and the GET is issued only if the address can be percent-encoded: for an
\* address holding a lone surrogate providerTikwm throws "URI malformed"
\* where it would retry, and no GET is made.  The GET is issued at most
\* once, and never after a POST payload with code 0.
C15_GetIffNoDataAndEncodable ==
    /\ GetAtMostOnce
    /\ fetched # <<>> =>
        LET retry == \/ Absent(fetched[1])
                     \/ Unparseable(fetched[1])
                     \/ ParsedFalsy(fetched[1])
                     \/ ReportsNonZero(fetched[1])
        IN /\ GetIssued = (retry /\ ~HasLoneSurrogate(url))
           /\ (retry /\ HasLoneSurrogate(url)) =>
                /\ (pc = "result" /\ idx = 1) => ret = Threw("URI malformed")
                /\ rets # <<>> => rets[1] = Threw("URI malformed")

C15_Witness ==
    /\ Len(fetched) = 1
    /\ fetched[1].ev
         = BodyRead(JsonOf(TikwmObject(<<-1>>, "Url parsing is failed!", <<>>)))
    /\ pc = "tikwm_get"
    /\ calls = <<"tikwm_post", "tikwm_get">>

-----------------------------------------------------------------------------
(* providerTikwm: how its outcome follows from its calls *)

\* providerTikwm was invoked for a TikTok address and has ended: rets[1] is
\* its outcome
TikwmEnded == IsPost /\ platform = "tiktok" /\ rets # <<>>

TikwmFetches == {i \in 1..Len(fetched) : fetched[i].site \in {"tikwm_post", "tikwm_get"}}

GetEnded == Len(fetched) >= 2 /\ fetched[2].site = "tikwm_get"

\* the payload providerTikwm retains: what the GET's body parsed to if it
\* parsed, else what the POST's body parsed to, else nothing
Retained ==
    IF GetEnded /\ Parseable(fetched[2]) THEN Parsed(fetched[2])
    ELSE IF Parseable(fetched[1]) THEN Parsed(fetched[1])
    ELSE Null

\* the code field of payload p is missing or is not 0
CodeMissingOrNonZero(p) == IF p.t # "object" THEN TRUE ELSE p.code # <<0>>

UpstreamMessage(p) ==
    IF p.t # "object" THEN "Unknown error"
    ELSE IF p.msg # "" THEN p.msg
    ELSE "Unknown error"

IsTunnel(outcome) ==
    IF outcome.k # "return" THEN FALSE
    ELSE IF outcome.v = Null THEN FALSE
    ELSE outcome.v.status = "tunnel"

\* some media address can be taken from payload p
PrimaryResolves(p) ==
    IF p.data = <<>> THEN FALSE
    ELSE \E f \in {"hdplay", "play", "wmplay", "music"} : p.data[1][f] # ""

TunnelOnlyForCodeZero ==
    IsTunnel(rets[1]) =>
        /\ Truthy(data)
        /\ ~CodeMissingOrNonZero(data)
        /\ PrimaryResolves(data)

\* C16 as stated: if neither attempt produced parseable JSON providerTikwm
\* returns the error result "TikWM no response"; if the retained payload's
\* code is missing or non-zero it returns an error result with that
\* payload's message or "Unknown error"; it returns a tunnel result only for
\* a retained payload with code 0 from which a primary URL resolves.
C16_OutcomeClassified ==
    TikwmEnded =>
        /\ data = Retained
        /\ (\A i \in TikwmFetches : ~Parseable(fetched[i])) =>
            rets[1] = Returned(ErrorEnvelope("TikWM no response"))
        /\ (Truthy(data) /\ CodeMissingOrNonZero(data)) =>
            rets[1] = Returned(ErrorEnvelope("TikWM: " \o UpstreamMessage(data)))
        /\ TunnelOnlyForCodeZero

\* the POST left no data or a payload reporting a non-zero code
PostFailed(f) ==
    Absent(f) \/ Unparseable(f) \/ ParsedFalsy(f) \/ ReportsNonZero(f)

\* C16 amended: as stated whenever providerTikwm returns, with "no parseable
\* JSON" read as "no data retained": the generic error is also returned when
\* the last body that parsed is a falsy value (JSON null), even after a POST
\* payload that parsed.  providerTikwm does not return but throws in two
\* cases: "URI malformed" when the POST failed and the address cannot be
\* percent-encoded, and a TypeError when the retained payload has code 0 and
\* no data object.  With code 0 and a data object the result is a tunnel if
\* a primary URL resolves and the error "Video URL not found in TikWM" if not.
C16_OutcomeClassifiedOrThrown ==
    TikwmEnded =>
        IF PostFailed(fetched[1]) /\ HasLoneSurrogate(url)
        THEN rets[1] = Threw("URI malformed")
        ELSE /\ data = Retained
             /\ IF ~Truthy(data)
                THEN rets[1] = Returned(ErrorEnvelope("TikWM no response"))
                ELSE IF CodeMissingOrNonZero(data)
                THEN rets[1] = Returned(ErrorEnvelope("TikWM: " \o UpstreamMessage(data)))
                ELSE IF data.data = <<>>
                THEN rets[1] = Threw("Cannot read properties of undefined (reading 'hdplay')")
                ELSE IF PrimaryResolves(data)
                THEN IsTunnel(rets[1])
                ELSE rets[1] = Returned(ErrorEnvelope("Video URL not found in TikWM"))

C16_Witness ==
    /\ TikwmEnded
    /\ GetEnded
    /\ fetched[1].ev
         = BodyRead(JsonOf(TikwmObject(<<-1>>, "Url parsing is failed!", <<>>)))
    /\ fetched[2].ev = BodyRead(JsonOf(Null))
    /\ rets[1] = Returned(ErrorEnvelope("TikWM no response"))

-----------------------------------------------------------------------------
(* The outbound calls of one resolve-media request *)

CallOrder == <<"tikwm_post", "tikwm_get", "snaptik_post">>

Position(site) == CHOOSE k \in 1..Len(CallOrder) : CallOrder[k] = site

\* the "Trying provider" entries of the log, by position
TryingEntries(name) == {j \in 1..Len(debugLog) : debugLog[j] = Trying(name)}

\* C17: within one resolve-media request at most one outbound call is in
\* flight at any time; each provider is invoked at most once, TikWM before
\* Snaptik; the calls issued are a subsequence of TikWM POST, TikWM GET,
\* Snaptik POST without repetition, so at most three are made.
C17_SequentialBounded ==
    req.endpoint = "media" =>
        /\ Cardinality(inflight) <= 1
        /\ \A c \in inflight : calls # <<>> /\ c.site = calls[Len(calls)]
        /\ \A i \in 1..Len(calls) : \E k \in 1..Len(CallOrder) : CallOrder[k] = calls[i]
        /\ \A i, j \in 1..Len(calls) : i < j => Position(calls[i]) < Position(calls[j])
        /\ Len(calls) <= 3
        /\ Len(rets) <= Len(providers)
        /\ \A k \in 1..Len(providers) : Cardinality(TryingEntries(providers[k])) <= 1
        /\ \A i \in TryingEntries("providerTikwm"), j \in TryingEntries("providerSnaptik") :
            i < j

C17_Witness ==
    /\ req.endpoint = "media"
    /\ pc = "snaptik_post"
    /\ calls = <<"tikwm_post", "tikwm_get", "snaptik_post">>
    /\ Cardinality(inflight) = 1
    /\ Len(rets) = 1

-----------------------------------------------------------------------------
(* providerTikwm: the tunnel result *)

\* providerTikwm returned a tunnel result: rets[1].v, built from the video
\* object data.data[1]
TikwmTunnel == TikwmEnded /\ IsTunnel(rets[1])

\* the fallback chains, on the fields of the video object v
ChainHd(v) == IF v.hdplay # "" THEN v.hdplay ELSE v.play
ChainSd(v) == IF v.play # "" THEN v.play ELSE v.hdplay
ChainAudio(v) == IF v.music # "" THEN v.music ELSE ChainHd(v)
ChainWatermark(v) == v.wmplay

VariantTypes == <<"video-hd", "video-sd", "audio", "video-watermark">>

TypePosition(ty) == CHOOSE k \in 1..Len(VariantTypes) : VariantTypes[k] = ty

Resolved(v, ty) ==
    CASE ty = "video-hd" -> ChainHd(v)
      [] ty = "video-sd" -> ChainSd(v)
      [] ty = "audio" -> ChainAudio(v)
      [] ty = "video-watermark" -> ChainWatermark(v)

HasVariant(list, ty) == \E i \in 1..Len(list) : list[i].type = ty

\* C18: in every tunnel result of providerTikwm the variants list holds at
\* most one entry of each type, in the relative order video-hd, video-sd,
\* audio, video-watermark, and an entry of a type is present if and only if
\* its URL resolved non-empty under the chains HD = hdplay else play, SD =
\* play else hdplay, audio = music else HD, watermark = wmplay; the entry
\* carries that URL.
C18_VariantsOrdered ==
    TikwmTunnel =>
        LET list == rets[1].v.variants
            video == data.data[1]
        IN /\ \A i \in 1..Len(list) :
                \E k \in 1..Len(VariantTypes) : VariantTypes[k] = list[i].type
           /\ \A i, j \in 1..Len(list) :
                i < j => TypePosition(list[i].type) < TypePosition(list[j].type)
           /\ \A k \in 1..Len(VariantTypes) :
                HasVariant(list, VariantTypes[k]) = (Resolved(video, VariantTypes[k]) # "")
           /\ \A i \in 1..Len(list) : list[i].url = Resolved(video, list[i].type)

C18_Witness ==
    /\ TikwmTunnel
    /\ data.data[1] = [hdplay |-> "", play |-> MediaUrl("play"), music |-> "",
                       wmplay |-> MediaUrl("wmplay")]
    /\ Len(rets[1].v.variants) = 4
    /\ rets[1].v.variants[3] = Variant("audio", "MP3 AUDIO", MediaUrl("play"))
    /\ rets[1].v.variants[4].type = "video-watermark"

\* the first non-empty element of a list of addresses ("" if there is none)
RECURSIVE FirstNonEmpty(_)
FirstNonEmpty(list) ==
    IF list = <<>> THEN ""
    ELSE IF Head(list) # "" THEN Head(list)
    ELSE FirstNonEmpty(Tail(list))

Candidates(v) == <<ChainHd(v), ChainSd(v), ChainWatermark(v), ChainAudio(v)>>

\* providerTikwm has ended holding a payload with code 0 and a video object
EndedWithVideo ==
    IF ~TikwmEnded THEN FALSE
    ELSE IF ~Truthy(data) THEN FALSE
    ELSE IF CodeMissingOrNonZero(data) THEN FALSE
    ELSE data.data # <<>>

C20_TunnelHasItsVariant ==
    TikwmTunnel =>
        LET list == rets[1].v.variants IN
        /\ list # <<>>
        /\ \E i \in 1..Len(list) : list[i].url = rets[1].v.url
        /\ HasVariant(list, "video-hd") = HasVariant(list, "video-sd")
        /\ HasVariant(list, "video-hd") => HasVariant(list, "audio")

C20_Witness ==
    /\ TikwmTunnel
    /\ data.data[1] = [hdplay |-> MediaUrl("hdplay"), play |-> "", music |-> "",
                       wmplay |-> ""]
    /\ Len(rets[1].v.variants) = 3
    /\ \A i \in 1..3 : rets[1].v.variants[i].url = MediaUrl("hdplay")
    /\ rets[1].v.url = MediaUrl("hdplay")

=============================================================================
